---- MODULE Spec2Model ----
(***************************************************************************)
(* Supply-chain risk tutorial (vulcan-tutorial): the scenario drivers, the *)
(* four rule sets (stage 0 deterministic, stage 1 mock, stage 2 AI         *)
(* baseline and AI enhanced) and the classifiers they call.                *)
(*                                                                         *)
(* Texts are TLA+ strings; TLC evaluates Len, SubSeq and \o on them, so    *)
(* substring tests, case folding and the token scan are computed           *)
(* character by character, as the Python code computes them.               *)
(*                                                                         *)
(* The rule engine (vulcan_core.RuleEngine) is an external library.  Its   *)
(* working memory holds one fact per fact class (engine[ActiveSupplier]    *)
(* returns the fact, engine.facts is a dict); evaluate() runs passes       *)
(* over the rules indexed by the fact attributes their conditions read,    *)
(* the first pass over every rule, each later pass over the rules that     *)
(* read an attribute of a fact written in the pass before.                 *)
(***************************************************************************)
EXTENDS Integers, Sequences, FiniteSets, TLC

VARIABLES
    mode,           \* which runner / rule set this process runs
    pc,             \* position of run_scenario
    facts,          \* RuleEngine._facts: fact class name -> facts held
    out,            \* lines printed by the current call of run_scenario
    iteration,      \* evaluate(): pass number
    agenda,         \* evaluate(): rules this pass has still to evaluate
    consequence,    \* evaluate(): attributes written in this pass
    reply,          \* reply of the text-completion service being parsed
    llm_calls,      \* number of invocations of the remote service
    ask_cache,      \* lru_cache of _ask_llm
    analyze_cache,  \* lru_cache of _analyze_risk_level
    error,          \* exception that ended the run, or "none"
    rerun,          \* run_scenario was called before in this process
    fixed,          \* history: working memory at the fixed point that
                    \* evaluate() was called on again
    provider,       \* run_scenario's provider argument (AI runner)
    env,            \* API key variables set in the process environment
    event_exists,   \* the file named by event_file exists
    demo_pc,        \* position of demo.py's main, "none" without launcher
    args,           \* demo.py: the parsed command line
    runner_key,     \* demo.py: the runner selected
    command_parts,  \* demo.py: the command handed to subprocess.call
    prompt_pc,      \* position of the prompt's preparation, or "none"
    text,           \* load_prompt: the content of the prompt file
    supplied,       \* load_prompt: the caller's **vars
    template,       \* _ask_llm: what load_prompt returned
    prompt,         \* _ask_llm: what template.format returned
    prompt_error,   \* exception raised while the prompt was prepared
    first_run       \* history: how the first call of run_scenario ended

vars == <<mode, pc, facts, out, iteration, agenda, consequence,
          reply, llm_calls, ask_cache, analyze_cache, error, rerun, fixed,
          provider, env, event_exists,
          demo_pc, args, runner_key, command_parts,
          prompt_pc, text, supplied, template, prompt, prompt_error,
          first_run>>

\* the launcher's variables, and those of the runner process
demo_vars == <<demo_pc, args, runner_key, command_parts>>
prompt_vars == <<prompt_pc, text, supplied, template, prompt, prompt_error>>
run_vars == <<mode, pc, facts, out, iteration, agenda, consequence,
              reply, llm_calls, ask_cache, analyze_cache, error, rerun,
              fixed, provider, env, event_exists, first_run>>

-----------------------------------------------------------------------------
(* Bounds of the input domains.                                            *)

MaxWords == 1
MaxReplyWords == 3
\* passes of evaluate() the model follows
MaxPasses == 5

-----------------------------------------------------------------------------
(* Strings.                                                                *)

UpperLetters == <<"A","B","C","D","E","F","G","H","I","J","K","L","M",
                  "N","O","P","Q","R","S","T","U","V","W","X","Y","Z">>
LowerLetters == <<"a","b","c","d","e","f","g","h","i","j","k","l","m",
                  "n","o","p","q","r","s","t","u","v","w","x","y","z">>

LowerOf ==
    [c \in {UpperLetters[i] : i \in 1..26} |->
        LowerLetters[CHOOSE i \in 1..26 : UpperLetters[i] = c]]

UpperOf ==
    [c \in {LowerLetters[i] : i \in 1..26} |->
        UpperLetters[CHOOSE i \in 1..26 : LowerLetters[i] = c]]

\* str.lower() on one character
LowerChar(c) == IF c \in DOMAIN LowerOf THEN LowerOf[c] ELSE c

\* str.upper() on one character
UpperChar(c) == IF c \in DOMAIN UpperOf THEN UpperOf[c] ELSE c

\* s[i-1:].lower()
RECURSIVE LowerFrom(_, _)
LowerFrom(s, i) ==
    IF i > Len(s) THEN ""
    ELSE LowerChar(SubSeq(s, i, i)) \o LowerFrom(s, i + 1)

\* str.lower()
Lower(s) == LowerFrom(s, 1)

\* s[i-1:].upper()
RECURSIVE UpperFrom(_, _)
UpperFrom(s, i) ==
    IF i > Len(s) THEN ""
    ELSE UpperChar(SubSeq(s, i, i)) \o UpperFrom(s, i + 1)

\* str.upper()
Upper(s) == UpperFrom(s, 1)

\* Python's  k in s  on strings
Contains(s, k) ==
    \E i \in 1..(Len(s) - Len(k) + 1) : SubSeq(s, i, i + Len(k) - 1) = k

\* s[i:] starts with k
StartsAt(s, i, k) ==
    /\ i + Len(k) - 1 <= Len(s)
    /\ SubSeq(s, i, i + Len(k) - 1) = k

\* any(k in s for k in keywords)
AnyIn(keywords, s) == \E j \in 1..Len(keywords) : Contains(s, keywords[j])

-----------------------------------------------------------------------------
(* Input domains: bulletin texts and replies of the text-completion        *)
(* service, built from words that cover every keyword of the code in       *)
(* several letter cases.                                                   *)

ScenarioA == "Tariffs announced on electronics"
ScenarioB == "Routine quarterly report, no disruptions"
ScenarioC == "Shipping delays reported at main port"
\* a MEDIUM-signal keyword with a critical keyword of the enhanced rule set
ScenarioD == "Port strike causes shipping delays"
\* a HIGH-signal keyword with a MEDIUM-signal keyword
ScenarioE == "Sanctions cause chip shortage"

TextWords == {"tariff", "Embargo", "SANCTION", "Transportation delays",
              "shortage", "Congestion", "Shutdown", "STRIKE"}

\* "not known" holds the token NO twice (NOT, KNOWN)
ReplyWords == {"YES", "not known", "LOW", "Medium", "HIGH"}

\* every text of at most n words of W, separated by one blank
RECURSIVE Phrases(_, _)
Phrases(W, n) ==
    IF n = 0 THEN {""}
    ELSE LET shorter == Phrases(W, n - 1)
         IN  shorter \cup {IF p = "" THEN w ELSE p \o " " \o w :
                             p \in shorter, w \in W}

BulletinTexts ==
    {ScenarioA, ScenarioB, ScenarioC, ScenarioD, ScenarioE}
      \cup Phrases(TextWords, MaxWords)

\* the reply of a service that finds no risk, in the requested format
NoRiskReply == "NO, LOW, YES"

Replies == Phrases(ReplyWords, MaxReplyWords) \cup {NoRiskReply}

\* a process that calls run_scenario a second time draws the second bulletin
\* and the replies to it from smaller sets
RerunTexts == {ScenarioA, ScenarioC, ScenarioD}
RerunReplies == {"YES HIGH YES", "yes, medium, yes", "not known"}

EventFile == "events/event.txt"

-----------------------------------------------------------------------------
(* Seeded facts (supply_chain/initial_state.py) and fact records           *)
(* (supply_chain/schema.py).                                               *)

Supplier(name, region) == [name |-> name, region |-> region]
NewsBulletin(content, region) == [content |-> content, region |-> region]
\* level is annotated Literal["HIGH","MEDIUM","LOW"]; the annotation is not
\* enforced when the fact is built
RegionRisk(region, level) == [region |-> region, level |-> level]
ActiveSupplier(supplier_name, supplier_region) ==
    [supplier_name |-> supplier_name, supplier_region |-> supplier_region]
Alert(message) == [message |-> message]

FactTypes ==
    {"Supplier", "NewsBulletin", "RegionRisk", "ActiveSupplier", "Alert"}

INITIAL_SUPPLIER == Supplier("CyberSystems Inc.", "Eastern Corridor")
BACKUP_SUPPLIER == Supplier("TechFlow Solutions", "Western Corridor")
INITIAL_ACTIVE_SUPPLIER ==
    ActiveSupplier("CyberSystems Inc.", "Eastern Corridor")
INITIAL_REGION_RISK_EASTERN == RegionRisk("Eastern Corridor", "LOW")
INITIAL_REGION_RISK_WESTERN == RegionRisk("Western Corridor", "LOW")

\* the facts in the order the drivers hand them to engine.fact
SeedFacts ==
    << <<"Supplier", INITIAL_SUPPLIER>>,
       <<"Supplier", BACKUP_SUPPLIER>>,
       <<"ActiveSupplier", INITIAL_ACTIVE_SUPPLIER>>,
       <<"RegionRisk", INITIAL_REGION_RISK_EASTERN>>,
       <<"RegionRisk", INITIAL_REGION_RISK_WESTERN>> >>

-----------------------------------------------------------------------------
(* Working memory of the rule engine.                                      *)

EmptyFacts == [t \in FactTypes |-> {}]

\* no call of run_scenario has ended yet
NoFirstRun == [pc |-> "none", out |-> <<>>, facts |-> EmptyFacts]

\* variant: Alerts accumulate, every other fact class holds one fact
FactPutKeepAlerts(F, t, f) ==
    [F EXCEPT ![t] = IF t = "Alert" THEN @ \cup {f} ELSE {f}]

\* variant: an ActiveSupplier is added to the ones already asserted
FactPutKeepActive(F, t, f) ==
    [F EXCEPT ![t] = IF t = "ActiveSupplier" THEN @ \cup {f} ELSE {f}]

\* engine.fact(f): the fact of class t becomes f
FactPut(F, t, f) == [F EXCEPT ![t] = {f}]

\* engine[T]: the current fact of class t
Resolve(F, t) == CHOOSE f \in F[t] : TRUE

RECURSIVE PutAll(_, _)
PutAll(F, fs) ==
    IF fs = <<>> THEN F
    ELSE PutAll(FactPut(F, Head(fs)[1], Head(fs)[2]), Tail(fs))

\* the attributes of a fact class, as the engine names them
AttrsOf(t) ==
    CASE t = "Supplier"       -> {"Supplier.name", "Supplier.region"}
      [] t = "NewsBulletin"   -> {"NewsBulletin.content", "NewsBulletin.region"}
      [] t = "RegionRisk"     -> {"RegionRisk.region", "RegionRisk.level"}
      [] t = "ActiveSupplier" -> {"ActiveSupplier.supplier_name",
                                  "ActiveSupplier.supplier_region"}
      [] t = "Alert"          -> {"Alert.message"}

-----------------------------------------------------------------------------
(* Stage 1 classifier: supply_chain/rules_mock.py, _analyze_risk_level.    *)

risk_keywords_high == <<"tariff", "embargo", "sanction">>
risk_keywords_med == <<"delay", "delays", "shortage", "congestion">>

\* variant: the keywords are looked up in the text as given
AnalyzeRiskLevelCaseSensitive(content) ==
    LET has_risk == AnyIn(risk_keywords_high \o risk_keywords_med, content)
    IN  IF ~has_risk THEN "LOW"
        ELSE IF AnyIn(risk_keywords_high, content) THEN "HIGH"
        ELSE "MEDIUM"

\* variant: no early return for a text without risk
AnalyzeRiskLevelNoEarlyReturn(content) ==
    IF AnyIn(risk_keywords_high, Lower(content)) THEN "HIGH" ELSE "MEDIUM"

\* variant: the MEDIUM keywords are looked up first
AnalyzeRiskLevelMediumFirst(content) ==
    LET content_lc == Lower(content)
        has_risk == AnyIn(risk_keywords_high \o risk_keywords_med, content_lc)
    IN  IF ~has_risk THEN "LOW"
        ELSE IF AnyIn(risk_keywords_med, content_lc) THEN "MEDIUM"
        ELSE "HIGH"

\* the value _analyze_risk_level returns
AnalyzeRiskLevel(content) ==
    LET content_lc == Lower(content)
        has_risk == AnyIn(risk_keywords_high \o risk_keywords_med, content_lc)
    IN  IF ~has_risk THEN "LOW"
        ELSE IF AnyIn(risk_keywords_high, content_lc) THEN "HIGH"
        ELSE "MEDIUM"

\* the three decision points as printed
MicropromptLines(a1, a2, a3, region) ==
    << "[MICROPROMPT 1] Does the bulletin indicate supply-chain risk?",
       "  -> " \o a1,
       "[MICROPROMPT 2] What is the *severity* of that risk?",
       "  -> " \o a2,
       "[MICROPROMPT 3] Is the risk specific to " \o region \o "?",
       "  -> " \o a3 >>

\* the lines _analyze_risk_level prints
AnalyzeRiskTrace(content, region) ==
    LET content_lc == Lower(content)
        has_risk == AnyIn(risk_keywords_high \o risk_keywords_med, content_lc)
    IN  MicropromptLines(IF has_risk THEN "YES" ELSE "NO",
                         AnalyzeRiskLevel(content), "YES", region)

-----------------------------------------------------------------------------
(* Stage 2 classifier: supply_chain/rules_ai_baseline.py and               *)
(* rules_ai_enhanced.py, _ask_llm and _classify_and_print.                 *)

ExpectedTokens == <<"YES", "NO", "LOW", "MEDIUM", "HIGH">>

\* re.findall(r"(YES|NO|LOW|MEDIUM|HIGH)", s) from position i on: at each
\* position the first alternative that matches is taken and the scan resumes
\* behind it
RECURSIVE FindAll(_, _)
FindAll(s, i) ==
    IF i > Len(s) THEN <<>>
    ELSE LET hits == {j \in 1..Len(ExpectedTokens) :
                        StartsAt(s, i, ExpectedTokens[j])}
         IN  IF hits = {} THEN FindAll(s, i + 1)
             ELSE LET j == CHOOSE j \in hits : \A h \in hits : j <= h
                  IN  <<ExpectedTokens[j]>>
                        \o FindAll(s, i + Len(ExpectedTokens[j]))

\* tokens of a reply, as _ask_llm finds them
ReplyTokens(r) == FindAll(Upper(r), 1)

\* variant: the severity is read from the last answer
AskResultSeverityLast(tokens) ==
    [has_risk |-> tokens[1] = "YES",
     severity |-> tokens[3],
     region_specific |-> tokens[2] = "YES"]

\* _ask_llm's return value for an accepted reply
AskResult(tokens) ==
    [has_risk |-> tokens[1] = "YES",
     severity |-> tokens[2],
     region_specific |-> tokens[3] = "YES"]

\* variant: one YES is enough
FinalLevelEitherYes(res) ==
    IF res.has_risk \/ res.region_specific THEN res.severity ELSE "LOW"

\* final_level of _classify_and_print
FinalLevel(res) ==
    IF res.has_risk /\ res.region_specific THEN res.severity ELSE "LOW"

ClassifyTrace(res, region) ==
    MicropromptLines(IF res.has_risk THEN "YES" ELSE "NO", res.severity,
                     IF res.region_specific THEN "YES" ELSE "NO", region)

\* variant: "delay" is a critical keyword too
HIGH_KEYWORDS_WithDelay == <<"shutdown", "embargo", "strike", "delay">>

\* variant: "strike" is not among the critical keywords
HIGH_KEYWORDS_NoStrike == <<"shutdown", "embargo">>

\* critical keywords of the enhanced rule set
HIGH_KEYWORDS == <<"shutdown", "embargo", "strike">>

\* variant: the escalation prints its message without the tag
FallbackLineUntagged == "Deterministic keyword found -> escalate MEDIUM -> HIGH"

FallbackLine == "[FALLBACK] Deterministic keyword found -> escalate MEDIUM -> HIGH"

-----------------------------------------------------------------------------
(* The rule sets: define_rules of supply_chain/rules.py (stage0),          *)
(* rules_mock.py (mock), rules_ai_baseline.py and rules_ai_enhanced.py.    *)

Modes == {"stage0", "mock", "ai_baseline", "ai_enhanced"}
AiModes == {"ai_baseline", "ai_enhanced"}
\* values of --provider
Providers == {"auto", "openai", "gemini"}
\* environments the runs start in: the key variables make_llm finds set,
\* none or the key of one provider
Environments == {{}, {"OPENAI_API_KEY"}, {"GEMINI_API_KEY"}}

\* rule names in the order define_rules registers them
RuleNames(m) ==
    CASE m = "stage0" ->
           <<"detect_high_regional_risk", "detect_medium_regional_risk",
             "switch_supplier_on_high_risk", "alert_on_supplier_switch",
             "alert_on_medium_risk">>
      [] m = "mock" ->
           <<"mock_classify_region_risk", "switch_supplier_on_high_risk",
             "alert_on_supplier_switch", "alert_on_medium_risk">>
      [] m = "ai_baseline" ->
           <<"ai_classify_region_risk", "switch_supplier_on_high_risk",
             "alert_on_supplier_switch", "alert_on_medium_risk">>
      [] m = "ai_enhanced" ->
           <<"ai_classify_region_risk", "escalate_medium_keyword",
             "switch_supplier_on_high_risk", "alert_on_supplier_switch",
             "alert_on_medium_risk">>

\* variant: the switch alert rule also reads the Alert it writes
WhenFactsAlertReadsAlert(m, r) ==
    CASE r \in {"detect_high_regional_risk", "detect_medium_regional_risk",
                "mock_classify_region_risk", "ai_classify_region_risk"} ->
           <<"NewsBulletin.content">>
      [] r = "escalate_medium_keyword" ->
           <<"RegionRisk.level", "NewsBulletin.content">>
      [] r = "switch_supplier_on_high_risk" ->
           <<"RegionRisk.level", "ActiveSupplier.supplier_region",
             "RegionRisk.region", "Supplier.region">>
      [] r = "alert_on_supplier_switch" ->
           <<"ActiveSupplier.supplier_region", "Alert.message">>
      [] r = "alert_on_medium_risk" ->
           <<"RegionRisk.level">>

\* the fact attributes a rule's condition reads, in the order it reads them
WhenFacts(m, r) ==
    CASE r \in {"detect_high_regional_risk", "detect_medium_regional_risk",
                "mock_classify_region_risk", "ai_classify_region_risk"} ->
           <<"NewsBulletin.content">>
      [] r = "escalate_medium_keyword" ->
           <<"RegionRisk.level", "NewsBulletin.content">>
      [] r = "switch_supplier_on_high_risk" ->
           <<"RegionRisk.level", "ActiveSupplier.supplier_region",
             "RegionRisk.region", "Supplier.region">>
      [] r = "alert_on_supplier_switch" ->
           <<"ActiveSupplier.supplier_region">>
      [] r = "alert_on_medium_risk" ->
           <<"RegionRisk.level">>

Range(f) == {f[i] : i \in DOMAIN f}

\* variant: the switch rule fires on any level above LOW
ConditionSwitchAboveLow(m, r, F) ==
    LET bulletin == Resolve(F, "NewsBulletin")
        risk == Resolve(F, "RegionRisk")
        active == Resolve(F, "ActiveSupplier")
        supplier == Resolve(F, "Supplier")
    IN  CASE r = "detect_high_regional_risk" ->
               Contains(bulletin.content, "tariff")
          [] r = "detect_medium_regional_risk" ->
               /\ \/ Contains(bulletin.content, "Transportation delays")
                  \/ Contains(bulletin.content, "shortage")
               /\ ~Contains(bulletin.content, "tariff")
          [] r \in {"mock_classify_region_risk", "ai_classify_region_risk"} ->
               bulletin.content # ""
          [] r = "escalate_medium_keyword" ->
               /\ risk.level = "MEDIUM"
               /\ AnyIn(HIGH_KEYWORDS, Lower(bulletin.content))
          [] r = "switch_supplier_on_high_risk" /\ m = "stage0" ->
               /\ risk.level # "LOW"
               /\ active.supplier_region = risk.region
               /\ supplier.region # active.supplier_region
               /\ risk.region = supplier.region
               /\ risk.level = "LOW"
          [] r = "switch_supplier_on_high_risk" /\ m # "stage0" ->
               /\ risk.level # "LOW"
               /\ active.supplier_region = risk.region
               /\ supplier.region # active.supplier_region
          [] r = "alert_on_supplier_switch" ->
               active.supplier_region # "Eastern Corridor"
          [] r = "alert_on_medium_risk" ->
               risk.level = "MEDIUM"

\* variant: the classification rule does not test the bulletin content
ConditionContentUnchecked(m, r, F) ==
    LET bulletin == Resolve(F, "NewsBulletin")
        risk == Resolve(F, "RegionRisk")
        active == Resolve(F, "ActiveSupplier")
        supplier == Resolve(F, "Supplier")
    IN  CASE r = "detect_high_regional_risk" ->
               Contains(bulletin.content, "tariff")
          [] r = "detect_medium_regional_risk" ->
               /\ \/ Contains(bulletin.content, "Transportation delays")
                  \/ Contains(bulletin.content, "shortage")
               /\ ~Contains(bulletin.content, "tariff")
          [] r \in {"mock_classify_region_risk", "ai_classify_region_risk"} ->
               TRUE
          [] r = "escalate_medium_keyword" ->
               /\ risk.level = "MEDIUM"
               /\ AnyIn(HIGH_KEYWORDS, Lower(bulletin.content))
          [] r = "switch_supplier_on_high_risk" /\ m = "stage0" ->
               /\ risk.level = "HIGH"
               /\ active.supplier_region = risk.region
               /\ supplier.region # active.supplier_region
               /\ risk.region = supplier.region
               /\ risk.level = "LOW"
          [] r = "switch_supplier_on_high_risk" /\ m # "stage0" ->
               /\ risk.level = "HIGH"
               /\ active.supplier_region = risk.region
               /\ supplier.region # active.supplier_region
          [] r = "alert_on_supplier_switch" ->
               active.supplier_region # "Eastern Corridor"
          [] r = "alert_on_medium_risk" ->
               risk.level = "MEDIUM"

\* the when-condition of rule r over working memory F
Condition(m, r, F) ==
    LET bulletin == Resolve(F, "NewsBulletin")
        risk == Resolve(F, "RegionRisk")
        active == Resolve(F, "ActiveSupplier")
        supplier == Resolve(F, "Supplier")
    IN  CASE r = "detect_high_regional_risk" ->
               Contains(bulletin.content, "tariff")
          [] r = "detect_medium_regional_risk" ->
               /\ \/ Contains(bulletin.content, "Transportation delays")
                  \/ Contains(bulletin.content, "shortage")
               /\ ~Contains(bulletin.content, "tariff")
          [] r \in {"mock_classify_region_risk", "ai_classify_region_risk"} ->
               bulletin.content # ""
          [] r = "escalate_medium_keyword" ->
               /\ risk.level = "MEDIUM"
               /\ AnyIn(HIGH_KEYWORDS, Lower(bulletin.content))
          [] r = "switch_supplier_on_high_risk" /\ m = "stage0" ->
               /\ risk.level = "HIGH"
               /\ active.supplier_region = risk.region
               /\ supplier.region # active.supplier_region
               /\ risk.region = supplier.region
               /\ risk.level = "LOW"
          [] r = "switch_supplier_on_high_risk" /\ m # "stage0" ->
               /\ risk.level = "HIGH"
               /\ active.supplier_region = risk.region
               /\ supplier.region # active.supplier_region
          [] r = "alert_on_supplier_switch" ->
               active.supplier_region # "Eastern Corridor"
          [] r = "alert_on_medium_risk" ->
               risk.level = "MEDIUM"

\* variant: the alert names the pass in which it was produced
CriticalAlertOfPass(active) ==
    Alert("CRITICAL ALERT: The new primary supplier is "
            \o active.supplier_name \o ", (" \o active.supplier_region \o ")"
            \o " [pass " \o ToString(iteration) \o "]")

\* variant: the alert names the primary supplier
CriticalAlertNamesPrimary(active) ==
    Alert("CRITICAL ALERT: The new primary supplier is "
            \o INITIAL_SUPPLIER.name \o ", (" \o INITIAL_SUPPLIER.region \o ")")

CriticalAlert(active) ==
    Alert("CRITICAL ALERT: The new primary supplier is "
            \o active.supplier_name \o ", (" \o active.supplier_region \o ")")

MediumAlert(risk) ==
    Alert("ALERT: The risk in " \o risk.region \o " has changed to MEDIUM")

\* variant: the switch takes the name of the alternate supplier only
ConsequentKeepsRegion(r, F) ==
    LET bulletin == Resolve(F, "NewsBulletin")
        risk == Resolve(F, "RegionRisk")
        active == Resolve(F, "ActiveSupplier")
        supplier == Resolve(F, "Supplier")
    IN  CASE r = "detect_high_regional_risk" ->
               [type |-> "RegionRisk",
                fact |-> RegionRisk(bulletin.region, "HIGH"), lines |-> <<>>]
          [] r = "detect_medium_regional_risk" ->
               [type |-> "RegionRisk",
                fact |-> RegionRisk(bulletin.region, "MEDIUM"), lines |-> <<>>]
          [] r = "escalate_medium_keyword" ->
               [type |-> "RegionRisk",
                fact |-> RegionRisk(risk.region, "HIGH"),
                lines |-> <<FallbackLine>>]
          [] r = "switch_supplier_on_high_risk" ->
               [type |-> "ActiveSupplier",
                fact |-> ActiveSupplier(supplier.name,
                                        active.supplier_region),
                lines |-> <<>>]
          [] r = "alert_on_supplier_switch" ->
               [type |-> "Alert", fact |-> CriticalAlert(active),
                lines |-> <<>>]
          [] r = "alert_on_medium_risk" ->
               [type |-> "Alert", fact |-> MediumAlert(risk), lines |-> <<>>]

\* the then-action of a rule that calls no classifier: the fact class it
\* writes, the fact, and the lines it prints
Consequent(r, F) ==
    LET bulletin == Resolve(F, "NewsBulletin")
        risk == Resolve(F, "RegionRisk")
        active == Resolve(F, "ActiveSupplier")
        supplier == Resolve(F, "Supplier")
    IN  CASE r = "detect_high_regional_risk" ->
               [type |-> "RegionRisk",
                fact |-> RegionRisk(bulletin.region, "HIGH"), lines |-> <<>>]
          [] r = "detect_medium_regional_risk" ->
               [type |-> "RegionRisk",
                fact |-> RegionRisk(bulletin.region, "MEDIUM"), lines |-> <<>>]
          [] r = "escalate_medium_keyword" ->
               [type |-> "RegionRisk",
                fact |-> RegionRisk(risk.region, "HIGH"),
                lines |-> <<FallbackLine>>]
          [] r = "switch_supplier_on_high_risk" ->
               [type |-> "ActiveSupplier",
                fact |-> ActiveSupplier(supplier.name, supplier.region),
                lines |-> <<>>]
          [] r = "alert_on_supplier_switch" ->
               [type |-> "Alert", fact |-> CriticalAlert(active),
                lines |-> <<>>]
          [] r = "alert_on_medium_risk" ->
               [type |-> "Alert", fact |-> MediumAlert(risk), lines |-> <<>>]

-----------------------------------------------------------------------------
(* RuleEngine.evaluate(): order of a pass.  The engine gives up after ten   *)
(* passes; no cascade of these rule sets comes near that.                  *)

\* rules indexed under attribute a, in registration order
RulesFor(m, a) ==
    SelectSeq(RuleNames(m), LAMBDA r : a \in Range(WhenFacts(m, r)))

RECURSIVE Dedupe(_, _)
Dedupe(seq, acc) ==
    IF seq = <<>> THEN acc
    ELSE Dedupe(Tail(seq),
                IF Head(seq) \in Range(acc) THEN acc
                ELSE Append(acc, Head(seq)))

RECURSIVE AllWhenFacts(_, _)
AllWhenFacts(m, rs) ==
    IF rs = <<>> THEN <<>>
    ELSE WhenFacts(m, Head(rs)) \o AllWhenFacts(m, Tail(rs))

\* keys of the rule index, in the order rule registration creates them
IndexKeys(m) == Dedupe(AllWhenFacts(m, RuleNames(m)), <<>>)

\* the rules a pass over the attributes keys evaluates, each once, in order
RECURSIVE PassOrder(_, _)
PassOrder(m, keys) ==
    IF keys = <<>> THEN <<>>
    ELSE RulesFor(m, Head(keys)) \o PassOrder(m, Tail(keys))

\* variant: a pass evaluates its rules last-registered first
AgendaLastFirst(m, keys) ==
    LET a == Dedupe(PassOrder(m, keys), <<>>)
    IN  [i \in 1..Len(a) |-> a[Len(a) + 1 - i]]

Agenda(m, keys) == Dedupe(PassOrder(m, keys), <<>>)

\* the orders in which a set of attributes can be iterated
Orderings(S) ==
    {p \in [1..Cardinality(S) -> S] : \A i, j \in DOMAIN p : p[i] = p[j] => i = j}

-----------------------------------------------------------------------------
(* The scenario drivers: run_scenario of main.py (stage0),                 *)
(* runners/mock_simulation.py (mock) and runners/ai_integration.py.        *)
(* out holds one entry per printed line that carries text; blank padding   *)
(* and the pictographs of the AI runner are left out.                      *)

\* demo.py was not used: the runner was started directly
NoArgs == [scenario |-> 0, gemini |-> FALSE, openai |-> FALSE,
           enhanced |-> FALSE]

BULLETIN_REGION == "Eastern Corridor"

TextsOfRun == IF rerun THEN RerunTexts ELSE BulletinTexts
RepliesOfRun == IF rerun THEN RerunReplies ELSE Replies

Init ==
    /\ mode \in Modes
    /\ pc = "start"
    /\ facts = EmptyFacts
    /\ out = <<>>
    /\ iteration = 0
    /\ agenda = <<>>
    /\ consequence = {}
    /\ reply = ""
    /\ llm_calls = 0
    /\ ask_cache = {}
    /\ analyze_cache = {}
    /\ error = "none"
    /\ rerun = FALSE
    /\ first_run = NoFirstRun
    /\ fixed = EmptyFacts
    /\ IF mode \in AiModes
       THEN provider \in Providers /\ env \in Environments
       ELSE provider = "auto" /\ env = {}
    /\ event_exists \in BOOLEAN
    /\ demo_pc = "none"
    /\ args = NoArgs
    /\ runner_key = ""
    /\ command_parts = <<>>
    /\ prompt_pc = "none"
    /\ text = ""
    /\ supplied = <<>>
    /\ template = ""
    /\ prompt = ""
    /\ prompt_error = "none"

\* variant: the explicit provider "openai" is taken without looking for its key
MakeLlmOpenAiUnchecked(p, e) ==
    IF p = "openai" \/ (p = "auto" /\ "OPENAI_API_KEY" \in e)
    THEN "openai"
    ELSE IF p = "gemini" \/ (p = "auto" /\ "GEMINI_API_KEY" \in e)
         THEN IF "GEMINI_API_KEY" \in e THEN "gemini" ELSE "none"
         ELSE "none"

\* make_llm: the provider whose client is built, "none" when it raises
\* RuntimeError; e holds the variables os.getenv finds with a value
MakeLlm(p, e) ==
    IF p = "openai" \/ (p = "auto" /\ "OPENAI_API_KEY" \in e)
    THEN IF "OPENAI_API_KEY" \in e THEN "openai" ELSE "none"
    ELSE IF p = "gemini" \/ (p = "auto" /\ "GEMINI_API_KEY" \in e)
         THEN IF "GEMINI_API_KEY" \in e THEN "gemini" ELSE "none"
         ELSE "none"

\* what the AI runner prints before make_llm is called
Header(m) ==
    IF m = "ai_enhanced"
    THEN <<"--- Running AI-Enhanced Scenario for Event: " \o EventFile \o " ---",
           "Enhanced rules enabled (with deterministic fallback guardrails)">>
    ELSE <<"--- Running AI-Enhanced Scenario for Event: " \o EventFile \o " ---">>

UsingLine(llm) ==
    IF llm = "openai"
    THEN "Using OpenAI integration (Vulcan's preferred provider)"
    ELSE "Using Gemini integration (via OpenAI-compatible interface)"

Banner(m) ==
    CASE m = "stage0" ->
           <<"--- Running Simplified Scenario for Event: " \o EventFile \o " ---",
             "Loading initial state...">>
      [] m = "mock" ->
           <<"--- Running Mock Microprompt Scenario for Event: "
               \o EventFile \o " ---">>
      [] m = "ai_baseline" ->
           Header(m) \o
           <<UsingLine(MakeLlm(provider, env)),
             "Loading rule set: rules_ai_baseline",
             "Loading initial supply chain state...">>
      [] m = "ai_enhanced" ->
           Header(m) \o
           <<UsingLine(MakeLlm(provider, env)),
             "Loading rule set: rules_ai_enhanced",
             "Loading initial supply chain state...">>

\* make_llm finds no key for the provider: RuntimeError leaves run_scenario
MakeLlmRaises ==
    /\ pc = "start"
    /\ mode \in AiModes
    /\ MakeLlm(provider, env) = "none"
    /\ out' = out \o Header(mode)
    /\ pc' = "crashed"
    /\ error' = "RuntimeError"
    /\ UNCHANGED <<rerun, first_run, fixed, mode, provider, env, event_exists,
                   demo_vars, prompt_vars, facts, iteration, agenda,
                   consequence, reply, llm_calls, ask_cache, analyze_cache>>

\* engine construction, make_llm, define_rules and the five engine.fact calls
SeedInitialState ==
    /\ pc = "start"
    /\ mode \in AiModes => MakeLlm(provider, env) # "none"
    /\ facts' = PutAll(facts, SeedFacts)
    /\ out' = out \o Banner(mode)
    /\ pc' = "seeded"
    /\ UNCHANGED <<rerun, first_run, fixed, mode, provider, env, event_exists,
                   demo_vars, prompt_vars, iteration, agenda, consequence,
                   reply, llm_calls, ask_cache, analyze_cache, error>>

\* the event file is read and the bulletin enters working memory
LoadEvent ==
    /\ pc = "seeded"
    /\ event_exists
    /\ \E content \in TextsOfRun :
         facts' = FactPut(facts, "NewsBulletin",
                          NewsBulletin(content, BULLETIN_REGION))
    /\ out' = Append(out, "Loaded event trigger.")
    /\ pc' = "loaded"
    /\ UNCHANGED <<rerun, first_run, fixed, mode, provider, env, event_exists,
                   demo_vars, prompt_vars, iteration, agenda, consequence,
                   reply, llm_calls, ask_cache, analyze_cache, error>>

\* variant: FileNotFoundError is swallowed without the message
EventFileMissingSilent ==
    /\ pc = "seeded"
    /\ ~event_exists
    /\ pc' = "returned"
    /\ UNCHANGED <<rerun, first_run, fixed, mode, provider, env, event_exists,
                   demo_vars, prompt_vars, facts, out, iteration, agenda,
                   consequence, reply, llm_calls, ask_cache, analyze_cache,
                   error>>

\* FileNotFoundError: the message is printed and run_scenario returns
EventFileMissing ==
    /\ pc = "seeded"
    /\ ~event_exists
    /\ out' = out \o
         (IF mode \in AiModes
          THEN <<"Error: Event file not found at " \o EventFile,
                 "Available events: events/event-1.txt, events/event-2.txt, events/event-3.txt, events/event-4.txt">>
          ELSE <<"Error: Event file not found at " \o EventFile>>)
    /\ pc' = "returned"
    /\ UNCHANGED <<rerun, first_run, fixed, mode, provider, env, event_exists,
                   demo_vars, prompt_vars, facts, iteration, agenda,
                   consequence, reply, llm_calls, ask_cache, analyze_cache,
                   error>>

\* engine.evaluate() starts: the first pass covers every indexed rule
BeginEvaluate ==
    /\ pc = "loaded"
    /\ out' = Append(out, IF mode \in AiModes
                          THEN "--- Evaluating AI-Enhanced Rules ---"
                          ELSE "--- Evaluating Rules ---")
    /\ agenda' = Agenda(mode, IndexKeys(mode))
    /\ iteration' = 0
    /\ consequence' = {}
    /\ pc' = "evaluating"
    /\ UNCHANGED <<rerun, first_run, fixed, mode, provider, env, event_exists,
                   demo_vars, prompt_vars, facts, reply, llm_calls,
                   ask_cache, analyze_cache, error>>

\* the engine evaluates rule r: when its condition holds, the action's fact
\* replaces the current fact of its class
FireRule(r) ==
    /\ pc = "evaluating"
    /\ agenda # <<>>
    /\ Head(agenda) = r
    /\ IF Condition(mode, r, facts)
       THEN LET c == Consequent(r, facts)
            IN  /\ facts' = FactPut(facts, c.type, c.fact)
                /\ consequence' = consequence \cup AttrsOf(c.type)
                /\ out' = out \o c.lines
       ELSE UNCHANGED <<facts, consequence, out>>
    /\ agenda' = Tail(agenda)
    /\ UNCHANGED <<rerun, first_run, fixed, mode, provider, env, event_exists,
                   demo_vars, prompt_vars, pc, iteration, reply, llm_calls,
                   ask_cache, analyze_cache, error>>

DetectHighRegionalRisk == FireRule("detect_high_regional_risk")

DetectMediumRegionalRisk == FireRule("detect_medium_regional_risk")

EscalateMediumKeyword == FireRule("escalate_medium_keyword")

SwitchSupplierOnHighRisk == FireRule("switch_supplier_on_high_risk")

AlertOnSupplierSwitch == FireRule("alert_on_supplier_switch")

AlertOnMediumRisk == FireRule("alert_on_medium_risk")

\* rule mock_classify_region_risk; _analyze_risk_level is memoized, a hit
\* returns the level without running the body (and so without printing)
MockClassifyRegionRisk ==
    /\ pc = "evaluating"
    /\ agenda # <<>>
    /\ Head(agenda) = "mock_classify_region_risk"
    /\ IF Condition(mode, "mock_classify_region_risk", facts)
       THEN LET bulletin == Resolve(facts, "NewsBulletin")
                hit == {e \in analyze_cache :
                          /\ e.content = bulletin.content
                          /\ e.region = bulletin.region}
                level == IF hit # {} THEN (CHOOSE e \in hit : TRUE).level
                         ELSE AnalyzeRiskLevel(bulletin.content)
            IN  /\ out' = IF hit # {} THEN out
                          ELSE out \o AnalyzeRiskTrace(bulletin.content,
                                                       bulletin.region)
                /\ analyze_cache' = analyze_cache \cup
                                      {[content |-> bulletin.content,
                                        region |-> bulletin.region,
                                        level |-> level]}
                /\ facts' = FactPut(facts, "RegionRisk",
                                    RegionRisk(bulletin.region, level))
                /\ consequence' = consequence \cup AttrsOf("RegionRisk")
       ELSE UNCHANGED <<facts, consequence, out, analyze_cache>>
    /\ agenda' = Tail(agenda)
    /\ UNCHANGED <<rerun, first_run, fixed, mode, provider, env, event_exists,
                   demo_vars, prompt_vars, pc, iteration, reply, llm_calls,
                   ask_cache, error>>

\* _classify_and_print once _ask_llm has returned res
ClassifyAndPrint(res) ==
    LET bulletin == Resolve(facts, "NewsBulletin")
    IN  /\ out' = out \o ClassifyTrace(res, bulletin.region)
        /\ facts' = FactPut(facts, "RegionRisk",
                            RegionRisk(bulletin.region, FinalLevel(res)))
        /\ consequence' = consequence \cup AttrsOf("RegionRisk")
        /\ agenda' = Tail(agenda)

\* variant: _ask_llm without memoization, the service is asked every time
AiClassifyRegionRiskNoCache ==
    /\ pc = "evaluating"
    /\ agenda # <<>>
    /\ Head(agenda) = "ai_classify_region_risk"
    /\ IF ~Condition(mode, "ai_classify_region_risk", facts)
       THEN /\ agenda' = Tail(agenda)
            /\ UNCHANGED <<facts, consequence, out, pc, reply, llm_calls>>
       ELSE /\ llm_calls' = llm_calls + 1
            /\ reply' \in RepliesOfRun
            /\ pc' = "asking"
            /\ UNCHANGED <<facts, consequence, out, agenda>>
    /\ UNCHANGED <<rerun, first_run, fixed, mode, provider, env, event_exists,
                   demo_vars, prompt_vars, iteration, ask_cache,
                   analyze_cache, error>>

\* variant: the memoized results are looked up by region alone
AiClassifyRegionRiskByRegion ==
    /\ pc = "evaluating"
    /\ agenda # <<>>
    /\ Head(agenda) = "ai_classify_region_risk"
    /\ IF ~Condition(mode, "ai_classify_region_risk", facts)
       THEN /\ agenda' = Tail(agenda)
            /\ UNCHANGED <<facts, consequence, out, pc, reply, llm_calls>>
       ELSE LET bulletin == Resolve(facts, "NewsBulletin")
                hit == {e \in ask_cache : e.region = bulletin.region}
            IN  IF hit # {}
                THEN /\ ClassifyAndPrint((CHOOSE e \in hit : TRUE).result)
                     /\ UNCHANGED <<pc, reply, llm_calls>>
                ELSE /\ llm_calls' = llm_calls + 1
                     /\ reply' \in RepliesOfRun
                     /\ pc' = "asking"
                     /\ UNCHANGED <<facts, consequence, out, agenda>>
    /\ UNCHANGED <<rerun, first_run, fixed, mode, provider, env, event_exists,
                   demo_vars, prompt_vars, iteration, ask_cache,
                   analyze_cache, error>>

\* rule ai_classify_region_risk up to the remote call: a memoized result is
\* used at once, otherwise the service is invoked and its reply awaited
AiClassifyRegionRisk ==
    /\ pc = "evaluating"
    /\ agenda # <<>>
    /\ Head(agenda) = "ai_classify_region_risk"
    /\ IF ~Condition(mode, "ai_classify_region_risk", facts)
       THEN /\ agenda' = Tail(agenda)
            /\ UNCHANGED <<facts, consequence, out, pc, reply, llm_calls>>
       ELSE LET bulletin == Resolve(facts, "NewsBulletin")
                hit == {e \in ask_cache :
                          /\ e.bulletin = bulletin.content
                          /\ e.region = bulletin.region}
            IN  IF hit # {}
                THEN /\ ClassifyAndPrint((CHOOSE e \in hit : TRUE).result)
                     /\ UNCHANGED <<pc, reply, llm_calls>>
                ELSE /\ llm_calls' = llm_calls + 1
                     /\ reply' \in RepliesOfRun
                     /\ pc' = "asking"
                     /\ UNCHANGED <<facts, consequence, out, agenda>>
    /\ UNCHANGED <<rerun, first_run, fixed, mode, provider, env, event_exists,
                   demo_vars, prompt_vars, iteration, ask_cache,
                   analyze_cache, error>>

\* variant: a malformed reply is answered by asking the service again
ParseReplyRetry ==
    /\ pc = "asking"
    /\ LET tokens == ReplyTokens(reply)
           bulletin == Resolve(facts, "NewsBulletin")
       IN  IF Len(tokens) < 3
           THEN /\ llm_calls' = llm_calls + 1
                /\ reply' \in RepliesOfRun
                /\ UNCHANGED <<facts, consequence, out, agenda, pc, error,
                               ask_cache>>
           ELSE /\ ask_cache' = ask_cache \cup
                                  {[bulletin |-> bulletin.content,
                                    region |-> bulletin.region,
                                    result |-> AskResult(tokens)]}
                /\ ClassifyAndPrint(AskResult(tokens))
                /\ pc' = "evaluating"
                /\ reply' = ""
                /\ UNCHANGED <<error, llm_calls>>
    /\ UNCHANGED <<rerun, first_run, fixed, mode, provider, env, event_exists,
                   demo_vars, prompt_vars, iteration, analyze_cache>>

\* the rest of _ask_llm and _classify_and_print: the reply is scanned for the
\* expected tokens; fewer than three raise ValueError, which nothing catches
ParseReply ==
    /\ pc = "asking"
    /\ LET tokens == ReplyTokens(reply)
           bulletin == Resolve(facts, "NewsBulletin")
       IN  IF Len(tokens) < 3
           THEN /\ pc' = "crashed"
                /\ error' = "ValueError"
                /\ UNCHANGED <<facts, consequence, out, agenda, reply,
                               ask_cache>>
           ELSE /\ ask_cache' = ask_cache \cup
                                  {[bulletin |-> bulletin.content,
                                    region |-> bulletin.region,
                                    result |-> AskResult(tokens)]}
                /\ ClassifyAndPrint(AskResult(tokens))
                /\ pc' = "evaluating"
                /\ reply' = ""
                /\ UNCHANGED error
    /\ UNCHANGED <<rerun, first_run, fixed, mode, provider, env, event_exists,
                   demo_vars, prompt_vars, iteration, llm_calls,
                   analyze_cache>>

\* end of a pass: evaluate() returns when the pass wrote no fact, otherwise
\* the next pass covers the rules that read a written attribute
EndPass ==
    /\ pc = "evaluating"
    /\ agenda = <<>>
    /\ IF consequence = {}
       THEN /\ pc' = "evaluated"
            /\ UNCHANGED <<agenda, iteration, consequence, error>>
       ELSE /\ iteration < MaxPasses
            /\ \E keys \in Orderings(consequence \cap Range(IndexKeys(mode))) :
                 agenda' = Agenda(mode, keys)
            /\ iteration' = iteration + 1
            /\ consequence' = {}
            /\ UNCHANGED <<pc, error>>
    /\ UNCHANGED <<rerun, first_run, fixed, mode, provider, env, event_exists,
                   demo_vars, prompt_vars, facts, out, reply, llm_calls,
                   ask_cache, analyze_cache>>

RECURSIVE SetToSeq(_)
SetToSeq(S) ==
    IF S = {} THEN <<>>
    ELSE LET x == CHOOSE x \in S : TRUE IN <<x>> \o SetToSeq(S \ {x})

RECURSIVE AlertLines(_)
AlertLines(alerts) ==
    IF alerts = <<>> THEN <<>>
    ELSE <<"  - " \o Head(alerts).message>> \o AlertLines(Tail(alerts))

\* the report after evaluate(): the alerts or the marker, the active supplier
ReportLines(m, F) ==
    LET alerts == SetToSeq(F["Alert"])
        active == Resolve(F, "ActiveSupplier")
    IN  <<"--- Evaluation Complete ---", "Generated Alerts:">>
          \o (IF alerts # <<>> THEN AlertLines(alerts)
              ELSE <<"  - No alerts generated.">>)
          \o (IF m \in AiModes
              THEN <<"Active supplier: " \o active.supplier_name
                       \o " (" \o active.supplier_region \o ")">>
              ELSE <<"Active supplier is: " \o active.supplier_name
                       \o ", (" \o active.supplier_region \o ")">>)
          \o <<"--- Scenario Complete ---">>

Report ==
    /\ pc = "evaluated"
    /\ out' = out \o ReportLines(mode, facts)
    /\ pc' = "done"
    /\ UNCHANGED <<rerun, first_run, fixed, mode, provider, env, event_exists,
                   demo_vars, prompt_vars, facts, iteration, agenda,
                   consequence, reply, llm_calls, ask_cache, analyze_cache,
                   error>>

Next ==
    \/ SeedInitialState
    \/ MakeLlmRaises
    \/ LoadEvent
    \/ EventFileMissing
    \/ BeginEvaluate
    \/ DetectHighRegionalRisk
    \/ DetectMediumRegionalRisk
    \/ MockClassifyRegionRisk
    \/ AiClassifyRegionRisk
    \/ ParseReply
    \/ EscalateMediumKeyword
    \/ SwitchSupplierOnHighRisk
    \/ AlertOnSupplierSwitch
    \/ AlertOnMediumRisk
    \/ EndPass
    \/ Report

Spec == Init /\ [][Next]_vars

\* engine.evaluate() called once more on the same engine, no fact asserted
\* in between: again a first pass over every indexed rule
EvaluateAgain ==
    /\ pc = "evaluated"
    /\ fixed = EmptyFacts
    /\ fixed' = facts
    /\ agenda' = Agenda(mode, IndexKeys(mode))
    /\ iteration' = 0
    /\ consequence' = {}
    /\ pc' = "evaluating"
    /\ UNCHANGED <<rerun, first_run, mode, provider, env, event_exists, demo_vars,
                   prompt_vars, facts, out, reply, llm_calls, ask_cache,
                   analyze_cache, error>>

NextReeval == Next \/ EvaluateAgain

ReevalSpec == Init /\ [][NextReeval]_vars

\* "The engine determines rule firing order, not the developer": any rule
\* still to be evaluated in this pass may be taken next
EngineChoosesOrder ==
    /\ pc = "evaluating"
    /\ \E i \in 2..Len(agenda) :
         agenda' = <<agenda[i]>> \o
                     SelectSeq(RuleNames(mode),
                               LAMBDA r : r \in Range(agenda) \ {agenda[i]})
    /\ UNCHANGED <<rerun, first_run, fixed, mode, provider, env, event_exists,
                   demo_vars, prompt_vars, pc, facts, out, iteration,
                   consequence, reply, llm_calls, ask_cache, analyze_cache,
                   error>>

NextAnyOrder == Next \/ EngineChoosesOrder

AnyOrderSpec == Init /\ [][NextAnyOrder]_vars

\* run_scenario is called again in the same process: a new engine, new
\* rules and seeds; the lru_caches of the classifiers live on
RunScenarioAgain ==
    /\ pc \in {"done", "returned"}
    /\ ~rerun
    /\ rerun' = TRUE
    /\ pc' = "start"
    /\ facts' = EmptyFacts
    /\ out' = <<>>
    /\ iteration' = 0
    /\ agenda' = <<>>
    /\ consequence' = {}
    /\ event_exists' \in BOOLEAN
    /\ first_run' = [pc |-> pc, out |-> out, facts |-> facts]
    /\ UNCHANGED <<fixed, mode, provider, env, reply, llm_calls, ask_cache,
                   analyze_cache, error, demo_vars, prompt_vars>>

NextProcess == Next \/ RunScenarioAgain

ProcessSpec == Init /\ [][NextProcess]_vars

-----------------------------------------------------------------------------
(* Prompt templates: load_prompt of supply_chain/prompt_loader.py and the  *)
(* template.format call of _ask_llm.                                       *)

\* pieces a prompt file is made of, and how many of them
MaxPieces == 2
Pieces == {"Rate ", "{bulletin}", " in {region}", "{NewsBulletin.content}",
           "{{low}} "}

RECURSIVE Concats(_, _)
Concats(W, n) ==
    IF n = 0 THEN {""}
    ELSE LET shorter == Concats(W, n - 1)
         IN  shorter \cup {q \o w : q \in shorter, w \in W}

PromptFiles == Concats(Pieces, MaxPieces)

\* values a caller may hand to load_prompt, and those _ask_llm formats with
StaticValues == [bulletin |-> "Port strike", region |-> "Eastern Corridor"]
SuppliedVars == {[k \in S |-> StaticValues[k]] : S \in SUBSET {"bulletin", "region"}}

CharAt(s, i) == SubSeq(s, i, i)

\* s.find(c, i): the first position of c from i on, 0 when there is none
IndexOf(s, c, i) ==
    LET found == {j \in i..Len(s) : CharAt(s, j) = c}
    IN  IF found = {} THEN 0
        ELSE CHOOSE j \in found : \A k \in found : j <= k

\* str.strip() of the blanks at both ends
RECURSIVE Strip(_)
Strip(s) ==
    IF s = "" THEN s
    ELSE IF CharAt(s, 1) = " " THEN Strip(SubSeq(s, 2, Len(s)))
    ELSE IF CharAt(s, Len(s)) = " " THEN Strip(SubSeq(s, 1, Len(s) - 1))
    ELSE s

FormatResult(e, t) == [err |-> e, text |-> t]

\* a key the mapping does not hold: _SafeMap.__missing__ gives the
\* placeholder back, a plain dict (str.format) raises KeyError
MissingKey(key, safe) ==
    IF safe THEN FormatResult("none", "{" \o key \o "}")
    ELSE FormatResult("KeyError", "")

\* one replacement field: the first part of the field name is looked up in
\* the mapping; a following .attribute is then read from the value found,
\* a str, which has no attribute of a fact
FormatField(field, map, safe) ==
    LET d == IndexOf(field, ".", 1)
        key == IF d = 0 THEN field ELSE SubSeq(field, 1, d - 1)
        obj == IF key \in DOMAIN map THEN FormatResult("none", map[key])
               ELSE MissingKey(key, safe)
    IN  IF key = "" THEN FormatResult("ValueError", "")
        ELSE IF obj.err # "none" THEN obj
        ELSE IF d # 0 THEN FormatResult("AttributeError", "")
        ELSE obj

\* the first brace from position i on, 0 when there is none
NextBrace(s, i) ==
    LET open == IndexOf(s, "{", i)
        close == IndexOf(s, "}", i)
    IN  IF open = 0 THEN close
        ELSE IF close = 0 THEN open
        ELSE IF open < close THEN open ELSE close

\* str.format_map(map) / str.format(**map) from position i on: literal
\* text is copied, {{ and }} give one brace, {field} is replaced
RECURSIVE FormatFrom(_, _, _, _)
FormatFrom(s, i, map, safe) ==
    LET b == NextBrace(s, i)
        Then(piece, j) ==
            LET rest == FormatFrom(s, j, map, safe)
            IN  IF piece.err # "none" THEN piece
                ELSE IF rest.err # "none" THEN rest
                ELSE FormatResult("none",
                                  SubSeq(s, i, b - 1) \o piece.text \o rest.text)
    IN  IF b = 0 THEN FormatResult("none", SubSeq(s, i, Len(s)))
        ELSE IF CharAt(s, b) = "{"
        THEN IF StartsAt(s, b, "{{")
             THEN Then(FormatResult("none", "{"), b + 2)
             ELSE LET j == IndexOf(s, "}", b + 1)
                  IN  IF j = 0 THEN FormatResult("ValueError", "")
                      ELSE Then(FormatField(SubSeq(s, b + 1, j - 1),
                                            map, safe), j + 1)
        ELSE IF StartsAt(s, b, "}}")
             THEN Then(FormatResult("none", "}"), b + 2)
             ELSE FormatResult("ValueError", "")

\* text.format_map(_SafeMap(vars))
FormatMap(s, map) == FormatFrom(s, 1, map, TRUE)
\* template.format(**kwargs)
Format(s, map) == FormatFrom(s, 1, map, FALSE)

NoRun ==
    /\ mode = "none"
    /\ pc = "unstarted"
    /\ facts = EmptyFacts
    /\ out = <<>>
    /\ iteration = 0
    /\ agenda = <<>>
    /\ consequence = {}
    /\ reply = ""
    /\ llm_calls = 0
    /\ ask_cache = {}
    /\ analyze_cache = {}
    /\ error = "none"
    /\ rerun = FALSE
    /\ first_run = NoFirstRun
    /\ fixed = EmptyFacts
    /\ provider = "auto"
    /\ env = {}
    /\ event_exists = TRUE

InitPrompt ==
    /\ NoRun
    /\ demo_pc = "none"
    /\ args = NoArgs
    /\ runner_key = ""
    /\ command_parts = <<>>
    /\ prompt_pc = "read"
    /\ text \in PromptFiles
    /\ supplied \in SuppliedVars
    /\ template = ""
    /\ prompt = ""
    /\ prompt_error = "none"

\* load_prompt: the file is read and stripped, the caller's values go in
LoadPrompt ==
    /\ prompt_pc = "read"
    /\ text' = Strip(text)
    /\ LET r == FormatMap(text', supplied)
       IN  /\ prompt_error' = r.err
           /\ template' = r.text
           /\ prompt_pc' = IF r.err = "none" THEN "loaded" ELSE "load_raised"
    /\ UNCHANGED <<supplied, prompt, demo_vars, run_vars>>

\* _ask_llm: template.format(bulletin=bulletin, region=region)
FormatPrompt ==
    /\ prompt_pc = "loaded"
    /\ LET r == Format(template, StaticValues)
       IN  /\ prompt_error' = r.err
           /\ prompt' = r.text
           /\ prompt_pc' = IF r.err = "none" THEN "formatted"
                           ELSE "format_raised"
    /\ UNCHANGED <<text, supplied, template, demo_vars, run_vars>>

NextPrompt == LoadPrompt \/ FormatPrompt

PromptSpec == InitPrompt /\ [][NextPrompt]_vars

-----------------------------------------------------------------------------
(* The launcher demo.py: it parses its command line, selects a runner,     *)
(* builds the runner's command and hands it to subprocess.call.            *)

\* scenario numbers a command line may carry; SCENARIOS holds 1..4
MaxScenarioArg == 5
ScenarioArgs == 0..MaxScenarioArg

SCENARIOS ==
    [n \in 1..4 |-> "events/event-" \o ToString(n) \o ".txt"]

RUNNER_CONFIGS ==
    [mock |-> <<"python3", "runners/mock_simulation.py">>,
     gemini |-> <<"python3", "runners/ai_integration.py", "--provider",
                  "gemini">>,
     openai |-> <<"python3", "runners/ai_integration.py", "--provider",
                  "openai">>]

InitDemo ==
    /\ demo_pc = "parse"
    /\ args \in [scenario : ScenarioArgs, gemini : BOOLEAN,
                  openai : BOOLEAN, enhanced : BOOLEAN]
    /\ runner_key = ""
    /\ command_parts = <<>>
    /\ prompt_pc = "none"
    /\ text = ""
    /\ supplied = <<>>
    /\ template = ""
    /\ prompt = ""
    /\ prompt_error = "none"
    /\ mode = "none"
    /\ pc = "unstarted"
    /\ facts = EmptyFacts
    /\ out = <<>>
    /\ iteration = 0
    /\ agenda = <<>>
    /\ consequence = {}
    /\ reply = ""
    /\ llm_calls = 0
    /\ ask_cache = {}
    /\ analyze_cache = {}
    /\ error = "none"
    /\ rerun = FALSE
    /\ first_run = NoFirstRun
    /\ fixed = EmptyFacts
    /\ provider = "auto"
    /\ env = {}
    /\ event_exists = TRUE

\* parser.parse_args(): a scenario outside the choices, or both flags of
\* the mutually exclusive group, end the launcher with a usage error
ParseArgs ==
    /\ demo_pc = "parse"
    /\ demo_pc' = IF args.scenario \notin DOMAIN SCENARIOS
                     \/ (args.gemini /\ args.openai)
                  THEN "usage_error"
                  ELSE "validate"
    /\ UNCHANGED <<args, runner_key, command_parts, run_vars, prompt_vars>>

\* variant: the enhancement flag is not validated
ValidateEnhancedAccepts ==
    /\ demo_pc = "validate"
    /\ demo_pc' = "select"
    /\ UNCHANGED <<args, runner_key, command_parts, run_vars, prompt_vars>>

\* enhanced requires an AI provider: parser.error otherwise
ValidateEnhanced ==
    /\ demo_pc = "validate"
    /\ demo_pc' = IF args.enhanced /\ ~(args.gemini \/ args.openai)
                  THEN "usage_error"
                  ELSE "select"
    /\ UNCHANGED <<args, runner_key, command_parts, run_vars, prompt_vars>>

SelectRunner ==
    /\ demo_pc = "select"
    /\ runner_key' = IF args.gemini THEN "gemini"
                     ELSE IF args.openai THEN "openai"
                     ELSE "mock"
    /\ demo_pc' = "build"
    /\ UNCHANGED <<args, command_parts, run_vars, prompt_vars>>

BuildCommand ==
    /\ demo_pc = "build"
    /\ command_parts' =
         RUNNER_CONFIGS[runner_key]
         \o (IF args.enhanced /\ runner_key # "mock"
             THEN <<"--enhanced-rules">> ELSE <<>>)
         \o <<SCENARIOS[args.scenario]>>
    /\ demo_pc' = "call"
    /\ UNCHANGED <<args, runner_key, run_vars, prompt_vars>>

\* the runner's own command line: the provider and the rule set it runs
RunnerMode(cmd) ==
    IF cmd[2] = "runners/mock_simulation.py" THEN "mock"
    ELSE IF "--enhanced-rules" \in Range(cmd) THEN "ai_enhanced"
    ELSE "ai_baseline"

RunnerProvider(cmd) ==
    IF \E i \in 1..(Len(cmd) - 1) : cmd[i] = "--provider"
    THEN cmd[(CHOOSE i \in 1..(Len(cmd) - 1) : cmd[i] = "--provider") + 1]
    ELSE "auto"

\* subprocess.call(command_parts): the runner process starts
SubprocessCall ==
    /\ demo_pc = "call"
    /\ demo_pc' = "running"
    /\ mode' = RunnerMode(command_parts)
    /\ provider' = RunnerProvider(command_parts)
    /\ pc' = "start"
    /\ UNCHANGED <<args, runner_key, command_parts, facts, out, iteration,
                   agenda, consequence, reply, llm_calls, ask_cache,
                   analyze_cache, error, rerun, fixed, env, event_exists,
                   first_run, prompt_vars>>

NextDemo ==
    \/ ParseArgs
    \/ ValidateEnhanced
    \/ SelectRunner
    \/ BuildCommand
    \/ SubprocessCall

DemoSpec == InitDemo /\ [][NextDemo]_vars

-----------------------------------------------------------------------------
(* State functions used by the properties.                                 *)

\* the five engine.fact calls of run_scenario have been made
Seeded == pc # "start" /\ error # "RuntimeError"
HasBulletin == facts["NewsBulletin"] # {}
Content == Resolve(facts, "NewsBulletin").content
Risk == Resolve(facts, "RegionRisk")
Active == Resolve(facts, "ActiveSupplier")
Alerts == facts["Alert"]
Finished == pc \in {"evaluated", "done"}
OutContains(k) == \E i \in DOMAIN out : Contains(out[i], k)

BackupActive == ActiveSupplier("TechFlow Solutions", "Western Corridor")

HighSignals == {"tariff", "embargo", "sanction"}
MediumSignals == {"delay", "shortage", "congestion"}
HasSignal(content, signals) ==
    \E k \in signals : Contains(Lower(content), k)

-----------------------------------------------------------------------------
(* C1: scenario A under the mock classifier: from the seeded facts, the    *)
(* bulletin "Tariffs announced on electronics" for the Eastern Corridor    *)
(* ends with RegionRisk HIGH for that region, ActiveSupplier replaced by   *)
(* the backup supplier (TechFlow Solutions, Western Corridor) and exactly  *)
(* one Alert, whose message contains "CRITICAL ALERT" and the backup       *)
(* supplier's name.                                                        *)
C1_ScenarioA ==
    (mode = "mock" /\ Finished /\ Content = ScenarioA) =>
        /\ Risk = RegionRisk("Eastern Corridor", "HIGH")
        /\ Active = BackupActive
        /\ Cardinality(Alerts) = 1
        /\ \A a \in Alerts :
             /\ Contains(a.message, "CRITICAL ALERT")
             /\ Contains(a.message, "TechFlow Solutions")

C1_Witness ==
    /\ mode = "mock" /\ pc = "done" /\ Content = ScenarioA
    /\ Alerts # {} /\ Active = BackupActive

(* C2: stage-0 driver: for a bulletin for the Eastern Corridor whose       *)
(* content contains "tariff", the report shows an Alert with "CRITICAL     *)
(* ALERT" and the "No alerts generated" marker is not printed.             *)
C2_Stage0TariffAlert ==
    (mode = "stage0" /\ pc = "done" /\ Contains(Content, "tariff")) =>
        /\ \E a \in Alerts : Contains(a.message, "CRITICAL ALERT")
        /\ OutContains("CRITICAL ALERT")
        /\ ~OutContains("No alerts generated")

(* C3: a bulletin with no HIGH-signal and no MEDIUM-signal keyword is      *)
(* classified LOW, the cascade ends with zero Alerts, the driver prints    *)
(* the "No alerts generated." marker and no "CRITICAL ALERT", and          *)
(* ActiveSupplier is still the primary supplier.                           *)
C3_NoSignalNoAlert ==
    (/\ mode \in {"stage0", "mock"} /\ Finished
     /\ ~HasSignal(Content, HighSignals \cup MediumSignals)) =>
        /\ Risk.level = "LOW"
        /\ \A e \in analyze_cache : e.content = Content => e.level = "LOW"
        /\ Alerts = {}
        /\ Active = INITIAL_ACTIVE_SUPPLIER
        /\ pc = "done" =>
             /\ OutContains("No alerts generated.")
             /\ ~OutContains("CRITICAL ALERT")

C3_Witness ==
    /\ mode = "mock" /\ pc = "done" /\ Content = ScenarioB
    /\ analyze_cache # {}

ExpectedLevel(content) ==
    IF HasSignal(content, HighSignals) THEN "HIGH"
    ELSE IF HasSignal(content, MediumSignals) THEN "MEDIUM"
    ELSE "LOW"

\* what the stage-0 rules make of a text: exact-case matches only
Stage0Level(content) ==
    IF Contains(content, "tariff") THEN "HIGH"
    ELSE IF \/ Contains(content, "Transportation delays")
            \/ Contains(content, "shortage") THEN "MEDIUM"
    ELSE "LOW"

(* C5 as stated: under every deterministic rule set (stage 0 and mock) the *)
(* level of a bulletin is HIGH if its text contains tariff, embargo or     *)
(* sanction in any letter case, otherwise MEDIUM if it contains delay,     *)
(* shortage or congestion, otherwise LOW.                                  *)
C5_PriorityScanAllDeterministic ==
    (mode \in {"stage0", "mock"} /\ Finished) =>
        Risk.level = ExpectedLevel(Content)

(* C5 amended: the mock classifier is that case-insensitive priority scan; *)
(* the stage-0 rules match in exact case only: HIGH if the text contains   *)
(* "tariff", otherwise MEDIUM if it contains "Transportation delays" or    *)
(* "shortage", otherwise the seeded LOW stays.                             *)
C5_PriorityScan ==
    /\ (mode = "mock" /\ Finished) =>
          /\ Risk.level = ExpectedLevel(Content)
          /\ \A e \in analyze_cache : e.level = ExpectedLevel(e.content)
    /\ (mode = "stage0" /\ Finished) => Risk.level = Stage0Level(Content)

C5_Witness ==
    /\ mode = "mock" /\ pc = "done" /\ Content = ScenarioE
    /\ Risk.level = "HIGH" /\ analyze_cache # {}

(* C6: in AI mode, for every reply in which at least three expected tokens *)
(* are found, the reply is accepted and the level written is the second    *)
(* token if the first and the third token are YES, otherwise LOW.          *)
C6_CombineAnswers ==
    [][(pc = "asking" /\ Len(ReplyTokens(reply)) >= 3) =>
          LET t == ReplyTokens(reply)
          IN  /\ pc' = "evaluating"
              /\ facts'["RegionRisk"] =
                   {RegionRisk(BULLETIN_REGION,
                               IF t[1] = "YES" /\ t[3] = "YES" THEN t[2]
                               ELSE "LOW")}]_vars

C6_Witness ==
    /\ mode \in AiModes /\ pc = "evaluating"
    /\ \E e \in ask_cache :
         /\ e.result.has_risk /\ e.result.region_specific
         /\ e.result.severity = "MEDIUM"
         /\ Risk = RegionRisk(BULLETIN_REGION, "MEDIUM")

(* C7: in every reachable state of every mode, each RegionRisk fact has a  *)
(* level in {LOW, MEDIUM, HIGH}.                                           *)
C7_LevelEnumerated ==
    \A r \in facts["RegionRisk"] : r.level \in {"LOW", "MEDIUM", "HIGH"}

(* C8: a reply with fewer than three expected tokens ends the run with an  *)
(* error: no RegionRisk is written from it, the service is not invoked     *)
(* again, and after the error no rule fires and nothing changes.           *)
C8_MalformedResponse ==
    [][/\ (pc = "asking" /\ Len(ReplyTokens(reply)) < 3) =>
            /\ pc' = "crashed" /\ error' = "ValueError"
            /\ facts' = facts /\ llm_calls' = llm_calls
            /\ ask_cache' = ask_cache /\ out' = out
       /\ pc = "crashed" => UNCHANGED vars]_vars

C8_Witness ==
    /\ pc = "crashed" /\ error = "ValueError" /\ llm_calls = 1
    /\ Len(ReplyTokens(reply)) = 2
    /\ facts["RegionRisk"] = {INITIAL_REGION_RISK_WESTERN}

(* C9: from seeding to report exactly one ActiveSupplier exists: the       *)
(* switch replaces it, nothing adds a second or removes it.                *)
C9_OneActiveSupplier ==
    Seeded => Cardinality(facts["ActiveSupplier"]) = 1

C9_Witness ==
    /\ pc = "done" /\ facts["ActiveSupplier"] = {BackupActive}

(* C10: Alerts are append-only within a run: no step removes or replaces   *)
(* an Alert that is in working memory.                                     *)
C10_AlertsAppendOnly ==
    [][facts["Alert"] \subseteq facts'["Alert"]]_vars

C10_Witness ==
    /\ mode = "ai_enhanced" /\ pc = "done" /\ Alerts # {}
    /\ OutContains("[FALLBACK]")

(* C11: the cascade terminates: in every mode, for every bulletin and     *)
(* every classification result, evaluation reaches after finitely many     *)
(* rule firings a pass that writes no fact, and the rules never cycle.     *)
(* Stated with a measure: every step of the evaluation shortens the        *)
(* agenda of the pass, starts the next pass or leaves the evaluation; a    *)
(* further pass is never refused for lack of passes; the rule at the head  *)
(* of the agenda is a rule of the mode, so a step is possible; and the     *)
(* evaluation ends only after a pass that wrote nothing.                   *)
C11_CascadeTerminates ==
    /\ [](/\ (pc = "evaluating" /\ agenda = <<>> /\ consequence # {}) =>
                iteration < MaxPasses
          /\ (pc = "evaluating" /\ agenda # <<>>) =>
                Head(agenda) \in Range(RuleNames(mode))
          /\ pc = "evaluated" => (consequence = {} /\ agenda = <<>>))
    /\ [][pc = "evaluating" =>
            \/ pc' = "evaluating" /\ iteration' = iteration
                 /\ Len(agenda') < Len(agenda)
            \/ pc' = "evaluating" /\ iteration' = iteration + 1
            \/ pc' \in {"asking", "evaluated"}]_vars

C11_Witness ==
    /\ mode = "ai_enhanced" /\ pc = "evaluated" /\ iteration >= 2
    /\ Risk.level = "HIGH" /\ Active = BackupActive

(* C12: idempotence of the fixed point: when evaluate() is run again on    *)
(* the fixed point with no new input fact, the fixed point it reaches      *)
(* holds the same facts: RegionRisk and ActiveSupplier unchanged, no       *)
(* additional Alert.                                                       *)
C12_Idempotent ==
    (pc = "evaluated" /\ fixed # EmptyFacts) => facts = fixed

C12_Witness ==
    /\ mode = "ai_enhanced" /\ pc = "evaluated" /\ fixed # EmptyFacts
    /\ facts = fixed /\ Risk.level = "HIGH" /\ Active = BackupActive
    /\ Alerts # {} /\ llm_calls = 1

\* the level the classification of the bulletin gave
ClassifiedLevel ==
    CASE mode = "stage0" -> Stage0Level(Content)
      [] mode = "mock" -> ExpectedLevel(Content)
      [] mode \in AiModes ->
           LET hit == {e \in ask_cache : e.bulletin = Content}
           IN  IF hit = {} THEN "LOW"
               ELSE LET res == (CHOOSE e \in hit : TRUE).result
                    IN  IF res.has_risk /\ res.region_specific
                        THEN res.severity ELSE "LOW"

\* the facts a finished evaluation holds, as a function of the mode, the
\* bulletin and its classification
FinalRisk ==
    LET written == IF mode = "stage0" THEN ClassifiedLevel # "LOW"
                   ELSE Content # ""
        level == IF /\ mode = "ai_enhanced" /\ ClassifiedLevel = "MEDIUM"
                    /\ HasSignal(Content, {"shutdown", "embargo", "strike"})
                 THEN "HIGH" ELSE ClassifiedLevel
    IN  IF written THEN RegionRisk("Eastern Corridor", level)
        ELSE RegionRisk("Western Corridor", "LOW")

FinalSwitched ==
    /\ mode # "stage0"
    /\ FinalRisk = RegionRisk("Eastern Corridor", "HIGH")

FinalAlerts ==
    IF FinalSwitched
    THEN {Alert("CRITICAL ALERT: The new primary supplier is "
                  \o "TechFlow Solutions, (Western Corridor)")}
    ELSE IF FinalRisk.level = "MEDIUM"
    THEN {Alert("ALERT: The risk in Eastern Corridor has changed to MEDIUM")}
    ELSE {}

(* C13: the final state does not depend on the order in which the rules    *)
(* are evaluated: for every mode and bulletin, whatever rule the engine    *)
(* takes next, the finished evaluation holds the RegionRisk, the           *)
(* ActiveSupplier and the set of Alerts that the mode, the bulletin and    *)
(* its classification determine.                                           *)
C13_OrderIndependent ==
    pc = "evaluated" =>
        /\ facts["RegionRisk"] = {FinalRisk}
        /\ facts["ActiveSupplier"] =
             {IF FinalSwitched THEN BackupActive ELSE INITIAL_ACTIVE_SUPPLIER}
        /\ facts["Alert"] = FinalAlerts

C13_Witness ==
    /\ mode = "ai_enhanced" /\ pc = "evaluated" /\ iteration >= 3
    /\ Risk.level = "HIGH" /\ Active = BackupActive
    /\ OutContains("[FALLBACK]")

\* the alert rule at the head of the agenda fires in this step
AlertRuleFires(r) ==
    /\ pc = "evaluating" /\ agenda # <<>> /\ Head(agenda) = r
    /\ Condition(mode, r, facts)

HoldsAlert(k) == \E a \in Alerts : Contains(a.message, k)

CountLines(k) == Cardinality({i \in DOMAIN out : Contains(out[i], k)})

ClassifiedMedium ==
    \E e \in ask_cache :
        /\ e.bulletin = Content /\ e.region = BULLETIN_REGION
        /\ e.result.has_risk /\ e.result.region_specific
        /\ e.result.severity = "MEDIUM"

(* C15: enhancement override: when the classification gives MEDIUM and the *)
(* bulletin text contains shutdown, embargo or strike in any letter case,  *)
(* the enhanced rule set ends with RegionRisk HIGH and the ActiveSupplier  *)
(* switched to the backup; the baseline rule set ends with RegionRisk      *)
(* MEDIUM and the ActiveSupplier unchanged.                                *)
C15_EnhancementOverride ==
    (/\ mode \in AiModes /\ Finished /\ ClassifiedMedium
     /\ HasSignal(Content, {"shutdown", "embargo", "strike"})) =>
        IF mode = "ai_enhanced"
        THEN /\ Risk = RegionRisk("Eastern Corridor", "HIGH")
             /\ Active = BackupActive
        ELSE /\ Risk = RegionRisk("Eastern Corridor", "MEDIUM")
             /\ Active = INITIAL_ACTIVE_SUPPLIER

C15_Witness ==
    /\ mode = "ai_enhanced" /\ pc = "done" /\ Content = "STRIKE"
    /\ ClassifiedMedium /\ Risk.level = "HIGH" /\ Active = BackupActive

\* number of lines of o that contain k
CountIn(o, k) == Cardinality({i \in DOMAIN o : Contains(o[i], k)})

EscalationFires ==
    /\ pc = "evaluating" /\ agenda # <<>>
    /\ Head(agenda) = "escalate_medium_keyword"
    /\ Condition(mode, "escalate_medium_keyword", facts)

(* C16: the override is traceable: a [FALLBACK] line is printed in exactly *)
(* the steps in which the escalation rule fires, the step that replaces    *)
(* the RegionRisk by HIGH; so a finished enhanced run whose level is HIGH  *)
(* shows either the [FALLBACK] line (classification MEDIUM, override) or   *)
(* MICROPROMPT 2 answered HIGH and no [FALLBACK] line (classification).    *)
C16_OverrideTraceable ==
    /\ [][/\ EscalationFires =>
               /\ out' = Append(out, FallbackLine)
               /\ Contains(FallbackLine, "[FALLBACK]")
               /\ facts'["RegionRisk"] = {RegionRisk(Risk.region, "HIGH")}
          /\ CountIn(out', "[FALLBACK]") # CountIn(out, "[FALLBACK]") =>
               EscalationFires]_vars
    /\ [](/\ mode # "ai_enhanced" => ~OutContains("[FALLBACK]")
          /\ (mode = "ai_enhanced" /\ Finished /\ Risk.level = "HIGH") =>
                IF OutContains("[FALLBACK]")
                THEN ClassifiedMedium /\ ~OutContains("  -> HIGH")
                ELSE ClassifiedLevel = "HIGH" /\ OutContains("  -> HIGH"))

C16_Witness ==
    /\ mode = "ai_enhanced" /\ pc = "evaluating"
    /\ out # <<>> /\ out[Len(out)] = FallbackLine
    /\ Risk = RegionRisk("Eastern Corridor", "HIGH")
    /\ Active = INITIAL_ACTIVE_SUPPLIER

\* a step in which a classifier returns a level to its rule
ClassifierReturns ==
    \/ /\ pc = "evaluating" /\ agenda # <<>>
       /\ Head(agenda) = "mock_classify_region_risk"
       /\ Condition(mode, "mock_classify_region_risk", facts)
    \/ /\ pc = "evaluating" /\ agenda # <<>>
       /\ Head(agenda) = "ai_classify_region_risk"
       /\ Condition(mode, "ai_classify_region_risk", facts)
       /\ \E e \in ask_cache : e.bulletin = Content /\ e.region = BULLETIN_REGION
    \/ /\ pc = "asking" /\ Len(ReplyTokens(reply)) >= 3

(* C17: every classification emits the decision trace: each call of the    *)
(* classifier, mock or AI, prints the three labelled decision points with  *)
(* their answers in the step in which its level is returned, also when the *)
(* same (bulletin text, region) is classified again in the process.        *)
C17_TraceEveryCall ==
    [][ClassifierReturns =>
          /\ Len(out') = Len(out) + 6
          /\ Contains(out'[Len(out) + 1], "[MICROPROMPT 1]")
          /\ Contains(out'[Len(out) + 3], "[MICROPROMPT 2]")
          /\ Contains(out'[Len(out) + 5], "[MICROPROMPT 3]")
          /\ mode = "mock" =>
               out'[Len(out) + 4] =
                 "  -> " \o Resolve(facts', "RegionRisk").level]_vars

\* the memoized results for the bulletin in working memory
CacheHits ==
    {e \in ask_cache : e.bulletin = Content /\ e.region = BULLETIN_REGION}

AiClassifierCalled ==
    /\ pc = "evaluating" /\ agenda # <<>>
    /\ Head(agenda) = "ai_classify_region_risk"
    /\ Condition(mode, "ai_classify_region_risk", facts)

(* C18: memoization of the AI classification: in a process, the remote     *)
(* service is invoked at most once per (bulletin text, region) for which a *)
(* result was obtained; a repeated call with the same pair gets the result *)
(* of the first call without an invocation; a call with another text is    *)
(* never served from another pair's entry.                                 *)
C18_Memoized ==
    /\ [](/\ \A e1, e2 \in ask_cache :
                (e1.bulletin = e2.bulletin /\ e1.region = e2.region) => e1 = e2
          /\ llm_calls =
               Cardinality(ask_cache)
                 + (IF pc = "asking" \/ error = "ValueError" THEN 1 ELSE 0))
    /\ [][AiClassifierCalled =>
            IF CacheHits # {}
            THEN /\ llm_calls' = llm_calls /\ ask_cache' = ask_cache
                 /\ pc' = "evaluating"
                 /\ \A e \in CacheHits :
                      /\ facts'["RegionRisk"] =
                           {RegionRisk(BULLETIN_REGION, FinalLevel(e.result))}
                      /\ out' = out \o ClassifyTrace(e.result, BULLETIN_REGION)
            ELSE /\ llm_calls' = llm_calls + 1 /\ pc' = "asking"
                 /\ facts' = facts]_vars

C18_Witness ==
    /\ rerun /\ mode \in AiModes /\ pc = "done" /\ Content = ScenarioC
    /\ llm_calls = 1 /\ CacheHits # {} /\ Risk.level = "MEDIUM"

-----------------------------------------------------------------------------
(* C19 MissingInput.                                                       *)

\* working memory right after the five engine.fact calls
SeededFacts == PutAll(EmptyFacts, SeedFacts)

\* the run of a missing event file: it stops at the read, with the message
\* as its last output, the seeded facts as they were, no bulletin, no pass
\* of evaluate() and no exception
MissingInputRun ==
    /\ error = "none"
    /\ pc \in {"start", "seeded", "returned"}
    /\ facts["NewsBulletin"] = {}
    /\ iteration = 0 /\ agenda = <<>> /\ llm_calls = 0
    /\ pc # "start" => facts = SeededFacts
    /\ pc = "seeded" => ENABLED EventFileMissing
    /\ pc = "returned" =>
         /\ CountLines("Error: Event file not found at " \o EventFile) = 1
         /\ ~OutContains("Evaluating")

\* C19 as stated: when the named bulletin file does not exist, every
\* runner prints the error message and returns normally, with no
\* NewsBulletin injected, no evaluation started and the seeded facts
\* unchanged.
C19_MissingInputEveryRunner == ~event_exists => MissingInputRun

\* C19 as the code has it: the same, the AI runner provided make_llm found
\* the key of its provider (it builds the client before it reads the file).
C19_MissingInput ==
    (~event_exists /\ (mode \in AiModes => MakeLlm(provider, env) # "none"))
        => MissingInputRun

C19_Witness ==
    /\ mode = "ai_enhanced"
    /\ ~event_exists
    /\ pc = "returned"
    /\ facts = SeededFacts
    /\ OutContains("Error: Event file not found at events/event.txt")

-----------------------------------------------------------------------------
(* C20 MissingCredential.                                                  *)

\* the key the selected provider needs is not in the environment
RequiredKeyAbsent ==
    \/ provider = "openai" /\ "OPENAI_API_KEY" \notin env
    \/ provider = "gemini" /\ "GEMINI_API_KEY" \notin env
    \/ provider = "auto" /\ env = {}

\* C20: in AI mode, when the API key of the selected provider is absent
\* (an explicit provider without its key, or auto with neither key), the
\* run can only fail in make_llm, with RuntimeError, before anything is
\* seeded or asked: the remote service is never invoked in such a run.
C20_MissingCredential ==
    (mode \in AiModes /\ RequiredKeyAbsent) =>
        /\ llm_calls = 0
        /\ ask_cache = {}
        /\ facts = EmptyFacts
        /\ pc \in {"start", "crashed"}
        /\ pc = "start" => ENABLED MakeLlmRaises /\ ~ENABLED SeedInitialState
        /\ pc = "crashed" => error = "RuntimeError" /\ out = Header(mode)

C20_Witness ==
    /\ mode = "ai_baseline"
    /\ provider = "gemini"
    /\ env = {"OPENAI_API_KEY"}
    /\ pc = "crashed"
    /\ error = "RuntimeError"
    /\ llm_calls = 0

-----------------------------------------------------------------------------
(* C21 InvalidArguments.                                                   *)

EnhancedWithoutProvider == args.enhanced /\ ~args.gemini /\ ~args.openai

\* C21: the launcher rejects --enhanced given with neither --gemini nor
\* --openai before a runner is selected, a command built or a subprocess
\* started; --enhanced-rules is in a command only behind the AI runner and
\* its --provider, and the mock runner is never started with it.
C21_InvalidArguments ==
    /\ EnhancedWithoutProvider =>
         /\ demo_pc \in {"parse", "validate", "usage_error"}
         /\ runner_key = "" /\ command_parts = <<>>
         /\ pc = "unstarted"
         /\ demo_pc = "validate" => ENABLED ValidateEnhanced
    /\ "--enhanced-rules" \in Range(command_parts) =>
         /\ command_parts[2] = "runners/ai_integration.py"
         /\ command_parts[3] = "--provider"
         /\ command_parts[4] \in {"gemini", "openai"}
         /\ args.enhanced
    /\ (pc = "start" /\ mode = "mock") =>
         "--enhanced-rules" \notin Range(command_parts)

C21_Witness ==
    /\ EnhancedWithoutProvider
    /\ args.scenario = 4
    /\ demo_pc = "usage_error"
    /\ pc = "unstarted"

-----------------------------------------------------------------------------
(* C22 two-phase prompt substitution.                                      *)

\* s with every occurrence of k replaced by v
RECURSIVE ReplaceAll(_, _, _)
ReplaceAll(s, k, v) ==
    LET at == {i \in 1..(Len(s) - Len(k) + 1) : StartsAt(s, i, k)}
    IN  IF at = {} THEN s
        ELSE LET i == CHOOSE j \in at : \A m \in at : j <= m
             IN  SubSeq(s, 1, i - 1) \o v
                 \o ReplaceAll(SubSeq(s, i + Len(k), Len(s)), k, v)

\* the placeholders of the keys of map replaced by their values, every
\* other placeholder left as it stands
Substituted(s, map) ==
    LET b == IF "bulletin" \in DOMAIN map
             THEN ReplaceAll(s, "{bulletin}", map["bulletin"]) ELSE s
    IN  IF "region" \in DOMAIN map
        THEN ReplaceAll(b, "{region}", map["region"]) ELSE b

\* C22: load_prompt replaces the placeholders of the supplied keys and
\* returns every other placeholder as it stands, simple ones and
\* fact-style ones ({Fact.attribute}) alike, with no vars the template
\* unchanged; the classifier's later substitution fills the remaining
\* ones.  (Stated for prompt files without doubled braces.)
C22_TwoPhaseSubstitution ==
    (prompt_pc # "read" /\ ~Contains(text, "{{")) =>
        /\ prompt_pc # "load_raised"
        /\ template = Substituted(text, supplied)
        /\ supplied = <<>> => template = text
        /\ prompt_pc = "formatted" =>
             prompt = Substituted(template, StaticValues)

-----------------------------------------------------------------------------
(* C23 no shared state across scenario runs.                               *)

\* the second call of run_scenario in the process has ended, on the
\* bulletin the first call ended on
SecondRunOfSameBulletin ==
    /\ rerun
    /\ pc = "done"
    /\ first_run.pc = "done"
    /\ facts["NewsBulletin"] = first_run.facts["NewsBulletin"]

\* C23: the second of two runs in one process does what it would do
\* alone: on the bulletin of the first run, which ran on a fresh process,
\* it ends with the same facts and has printed the same output.
C23_RunsIndependent ==
    SecondRunOfSameBulletin =>
        /\ facts = first_run.facts
        /\ out = first_run.out

-----------------------------------------------------------------------------
(* C24 supplier-switch rule.                                               *)

SeededSuppliers == {INITIAL_SUPPLIER, BACKUP_SUPPLIER}

\* a step of the run that replaces the ActiveSupplier held
ActiveSupplierReplaced ==
    /\ facts["ActiveSupplier"] # {}
    /\ facts'["ActiveSupplier"] # facts["ActiveSupplier"]

\* C24: ActiveSupplier is replaced only where the RegionRisk held is HIGH
\* for the region the active supplier operates in and a Supplier of
\* another region exists; the new ActiveSupplier carries that Supplier's
\* name and region, so the active region then differs from the HIGH-risk
\* region.
C24_SwitchRule ==
    [][ActiveSupplierReplaced =>
         /\ Risk.level = "HIGH"
         /\ Active.supplier_region = Risk.region
         /\ pc = "evaluating" /\ Head(agenda) = "switch_supplier_on_high_risk"
         /\ \E s \in facts["Supplier"] :
              /\ s \in SeededSuppliers
              /\ s.region # Active.supplier_region
              /\ facts'["ActiveSupplier"] =
                   {ActiveSupplier(s.name, s.region)}
              /\ s.region # Risk.region
         /\ facts'["RegionRisk"] = facts["RegionRisk"]]_vars

C24_Witness ==
    /\ mode = "mock"
    /\ pc = "evaluating"
    /\ Active = BackupActive
    /\ Risk = RegionRisk("Eastern Corridor", "HIGH")
    /\ Alerts = {}

-----------------------------------------------------------------------------
(* C25 critical-alert rule.                                                *)

PRIMARY_REGION == "Eastern Corridor"

\* C25: a CRITICAL ALERT exists only while the active supplier is outside
\* the primary region, and names the supplier then active and its region;
\* an evaluation that ended with the active supplier outside the primary
\* region has produced it.
C25_CriticalAlertRule ==
    Seeded =>
        /\ \A a \in Alerts :
             Contains(a.message, "CRITICAL ALERT") =>
                 /\ Active.supplier_region # PRIMARY_REGION
                 /\ Contains(a.message, Active.supplier_name \o ", ")
                 /\ Contains(a.message, "(" \o Active.supplier_region \o ")")
        /\ Active.supplier_region = PRIMARY_REGION =>
             ~HoldsAlert("CRITICAL ALERT")
        /\ (Finished /\ Active.supplier_region # PRIMARY_REGION) =>
             HoldsAlert("CRITICAL ALERT")

C25_Witness ==
    /\ mode = "ai_baseline"
    /\ pc = "done"
    /\ Active.supplier_region = "Western Corridor"
    /\ HoldsAlert("CRITICAL ALERT")

-----------------------------------------------------------------------------
(* C26 classification is framed to the bulletin's region.                  *)

Regions == {INITIAL_REGION_RISK_EASTERN.region,
            INITIAL_REGION_RISK_WESTERN.region}

RiskOf(region) == {f \in facts["RegionRisk"] : f.region = region}

\* C26: after seeding and after every rule firing there is exactly one
\* current RegionRisk per region, and that of every region but the
\* bulletin's is the seeded baseline LOW.
C26_RegionFrame ==
    Seeded =>
        \A g \in Regions :
            /\ Cardinality(RiskOf(g)) = 1
            /\ g # BULLETIN_REGION => RiskOf(g) = {RegionRisk(g, "LOW")}

\* the agenda of an AI baseline run with the classification rule renamed
AsMockAgenda(ag) ==
    [i \in 1..Len(ag) |-> IF ag[i] = "ai_classify_region_risk"
                          THEN "mock_classify_region_risk" ELSE ag[i]]

\* the three answers of _analyze_risk_level
MockAnswers(content) ==
    << IF AnyIn(risk_keywords_high \o risk_keywords_med, Lower(content))
       THEN "YES" ELSE "NO",
       AnalyzeRiskLevel(content),
       "YES" >>

\* the mock rule set evaluating the head of agenda ag on facts F
MockRuleStep(F, ag, cons, o, F2, ag2, cons2, o2) ==
    /\ ag # <<>>
    /\ ag2 = Tail(ag)
    /\ LET r == Head(ag)
       IN  IF ~Condition("mock", r, F)
           THEN F2 = F /\ cons2 = cons /\ o2 = o
           ELSE IF r = "mock_classify_region_risk"
           THEN LET bulletin == Resolve(F, "NewsBulletin")
                    level == AnalyzeRiskLevel(bulletin.content)
                IN  /\ F2 = FactPut(F, "RegionRisk",
                                    RegionRisk(bulletin.region, level))
                    /\ cons2 = cons \cup AttrsOf("RegionRisk")
                    /\ o2 = o \o AnalyzeRiskTrace(bulletin.content,
                                                  bulletin.region)
           ELSE LET c == Consequent(r, F)
                IN  /\ F2 = FactPut(F, c.type, c.fact)
                    /\ cons2 = cons \cup AttrsOf(c.type)
                    /\ o2 = o \o c.lines

\* the mock rule set at the end of a pass
MockPassEnd(cons, it, ag2, cons2, it2, pc2) ==
    IF cons = {}
    THEN pc2 = "evaluated" /\ ag2 = <<>> /\ cons2 = cons /\ it2 = it
    ELSE /\ pc2 = "evaluating"
         /\ \E keys \in Orderings(cons \cap Range(IndexKeys("mock"))) :
              ag2 = Agenda("mock", keys)
         /\ cons2 = {}
         /\ it2 = it + 1

\* the service answers exactly what the keyword analysis yields: in the
\* memoized results, and in the reply awaited at position p
Faithful(p, r, cache, F) ==
    /\ \A e \in cache : e.result = AskResult(MockAnswers(e.bulletin))
    /\ p = "asking" =>
         LET tokens == ReplyTokens(r)
         IN  /\ Len(tokens) >= 3
             /\ <<tokens[1], tokens[2], tokens[3]>>
                  = MockAnswers(Resolve(F, "NewsBulletin").content)

\* C27: the mock rule set and the AI baseline rule set are the same state
\* machine apart from the classifier.  MockRuleStep and MockPassEnd are the
\* mock rule set's transition relation on explicit states; when the service
\* answers what the keyword analysis yields, every step of an AI baseline
\* run is a step of that relation (with the classification rule renamed), so
\* both go through the same fact changes, end in the same facts and print
\* the same three MICROPROMPT lines.
C27_SameCascade ==
    [][(/\ mode \in {"mock", "ai_baseline"}
        /\ pc \in {"loaded", "evaluating", "asking"}
        /\ Faithful(pc, reply, ask_cache, facts)
        /\ Faithful(pc', reply', ask_cache', facts'))
       => \/ /\ pc = "loaded"
             /\ AsMockAgenda(agenda') = Agenda("mock", IndexKeys("mock"))
             /\ facts' = facts
          \/ /\ pc = "evaluating" /\ pc' = "asking"
             /\ Head(agenda) = "ai_classify_region_risk"
             /\ Condition("mock", "mock_classify_region_risk", facts)
             /\ UNCHANGED <<facts, agenda, consequence, out, iteration>>
          \/ /\ pc' = "evaluating" /\ iteration' = iteration
             /\ MockRuleStep(facts, AsMockAgenda(agenda), consequence, out,
                             facts', AsMockAgenda(agenda'), consequence',
                             out')
          \/ /\ pc = "evaluating" /\ agenda = <<>>
             /\ facts' = facts /\ out' = out
             /\ MockPassEnd(consequence, iteration, AsMockAgenda(agenda'),
                            consequence', iteration', pc')]_vars

C27_Witness ==
    /\ mode = "ai_baseline" /\ pc = "evaluated"
    /\ ask_cache # {} /\ Faithful(pc, reply, ask_cache, facts)
    /\ Active = BackupActive
    /\ out # <<>>

\* C28: the escalation override fires only from MEDIUM and only in the
\* enhanced rule set: after seeding, a step that replaces the RegionRisk is
\* a classification or the escalation rule firing in enhanced mode on a
\* MEDIUM level with a critical keyword in the text, and then the new level
\* is HIGH; a classification result of LOW stays LOW even when the text
\* holds a critical keyword, and a MEDIUM result without a critical
\* keyword stays MEDIUM.
C28_EscalationOnlyFromMedium ==
    /\ [][/\ (Seeded /\ facts'["RegionRisk"] # facts["RegionRisk"]
              /\ pc # "asking"
              /\ ~(/\ pc = "evaluating" /\ agenda # <<>>
                   /\ Head(agenda) \in {"mock_classify_region_risk",
                                         "ai_classify_region_risk",
                                         "detect_high_regional_risk",
                                         "detect_medium_regional_risk"})) =>
               /\ mode = "ai_enhanced"
               /\ EscalationFires
               /\ facts'["RegionRisk"] = {RegionRisk(Risk.region, "HIGH")}
          /\ EscalationFires =>
               /\ mode = "ai_enhanced"
               /\ Risk.level = "MEDIUM"
               /\ HasSignal(Content, {"shutdown", "embargo", "strike"})]_vars
    /\ []((mode \in AiModes /\ Seeded
           /\ \E e \in ask_cache : e.bulletin = Content) =>
            /\ ClassifiedLevel = "LOW" => Risk.level = "LOW"
            /\ (/\ ClassifiedLevel = "MEDIUM"
                /\ ~HasSignal(Content, {"shutdown", "embargo", "strike"})) =>
                    Risk.level = "MEDIUM"
            /\ mode = "ai_baseline" => Risk.level = ClassifiedLevel)

C28_Witness ==
    /\ mode = "ai_enhanced" /\ pc = "done"
    /\ \E e \in ask_cache : e.bulletin = Content
    /\ Content = ScenarioD /\ ClassifiedLevel = "LOW"
    /\ Risk.level = "LOW" /\ ~OutContains("[FALLBACK]")

\* C29: within one run the ActiveSupplier changes at most once: a step
\* that changes it leads from the primary to the backup supplier and is the
\* switch rule firing; with the backup supplier active the condition of the
\* switch rule is false and no step changes the ActiveSupplier again.
C29_SwitchAtMostOnce ==
    /\ [][/\ (Seeded /\ facts'["ActiveSupplier"] # facts["ActiveSupplier"]) =>
               /\ pc = "evaluating" /\ agenda # <<>>
               /\ Head(agenda) = "switch_supplier_on_high_risk"
               /\ Condition(mode, "switch_supplier_on_high_risk", facts)
               /\ facts["ActiveSupplier"] = {INITIAL_ACTIVE_SUPPLIER}
               /\ facts'["ActiveSupplier"] = {BackupActive}
          /\ (Seeded /\ Active # INITIAL_ACTIVE_SUPPLIER) =>
               facts'["ActiveSupplier"] = facts["ActiveSupplier"]]_vars
    /\ []((Seeded /\ Active # INITIAL_ACTIVE_SUPPLIER) =>
            /\ Active = BackupActive
            /\ ~Condition(mode, "switch_supplier_on_high_risk", facts))

\* the switch rule is evaluated again after the switch
C29_Witness ==
    /\ pc = "evaluating" /\ agenda # <<>> /\ iteration > 0
    /\ Head(agenda) = "switch_supplier_on_high_risk"
    /\ Active = BackupActive

\* C30: empty bulletin: the classification rule never fires in mock, AI
\* baseline or AI enhanced mode; no classifier runs and the service is not
\* invoked, the RegionRisk facts stay as seeded, at LOW, no Alert is
\* produced and the ActiveSupplier stays the primary supplier.
C30_EmptyBulletin ==
    (/\ mode \in {"mock"} \cup AiModes
     /\ Seeded /\ HasBulletin /\ Content = "") =>
        /\ ~ClassifierReturns
        /\ pc \notin {"asking", "crashed"}
        /\ llm_calls = 0 /\ ask_cache = {} /\ analyze_cache = {}
        /\ ~OutContains("[MICROPROMPT") /\ ~OutContains("[FALLBACK]")
        /\ facts["RegionRisk"] = SeededFacts["RegionRisk"]
        /\ \A risk \in facts["RegionRisk"] : risk.level = "LOW"
        /\ Alerts = {}
        /\ Active = INITIAL_ACTIVE_SUPPLIER
        /\ iteration = 0

C30_Witness ==
    /\ mode = "ai_enhanced" /\ pc = "done"
    /\ HasBulletin /\ Content = ""
    /\ OutContains("Evaluating")

====
